---- MODULE Spec2Model ----
(***************************************************************************)
(* State-machine model of the live session hook (src/hooks/useLiveSession.ts)*)
(* together with the presentation layer's toggle (src/components/PhoneUI.tsx)*)
(* and the types of src/types.ts.                                          *)
(*                                                                         *)
(* Every connect() call creates one session i: its own input/output audio  *)
(* contexts, microphone stream, script processor and session promise, all  *)
(* captured by the closures of that call.  The refs of the hook hold the   *)
(* index of the session whose object they point at (0 is null).            *)
(***************************************************************************)
EXTENDS Integers, Sequences, FiniteSets, TLC

\* ---- bounds of the model ----
MaxConnects == 2
MaxDisconnects == 2
MaxFrames == 1
MaxMessages == 2
MaxClock == 2
SampleDen == 4
\* the sessions and messages of the specifications that follow one session
OneConnect == 1
OneMessage == 1

Sessions == 1..MaxConnects

VARIABLES
  connectionState, logs, volumeLevel, errorMessage,
  audioContextRef, mediaStreamRef, processorRef, sessionRef,
  nextStartTimeRef, audioSourcesRef,
  currentInputTranscription, currentOutputTranscription,
  systemState,
  pc, transport, ready, thenQ, calls, capture, micLive, ctxCloseCalls,
  executeToolBattery, hasGetBattery,
  handlers, now, stopped, scheduled,
  nconn, ndisc, nframes, cancelled

hookVars == <<connectionState, logs, volumeLevel, errorMessage>>
refVars == <<audioContextRef, mediaStreamRef, processorRef, sessionRef>>
playVars == <<nextStartTimeRef, audioSourcesRef, stopped, scheduled, now>>
textVars == <<currentInputTranscription, currentOutputTranscription>>
sessVars == <<pc, transport, ready, thenQ, calls, capture, micLive, ctxCloseCalls>>
toolVars == <<systemState, executeToolBattery, hasGetBattery>>
\* bookkeeping of the environment: the calls and frames so far, and the sessions
\* whose connect() was still in progress when disconnect() ran
countVars == <<nconn, ndisc, nframes, cancelled>>
vars == <<hookVars, refVars, playVars, textVars, sessVars, toolVars, handlers, countVars>>

\* ---- src/types.ts ----
ConnectionState == {"DISCONNECTED", "CONNECTING", "CONNECTED", "ERROR"}

NoApp == "null"
NoError == "null"

\* the simulated phone state the presentation layer constructs
InitialSystemState ==
  [brightness |-> 100, flashlight |-> FALSE, batteryLevel |-> 84, wifi |-> TRUE,
   bluetooth |-> TRUE, volume |-> 50, activeApp |-> NoApp]

addLog(lg, role, text) == Append(lg, [role |-> role, text |-> text])

\* ---- promise chaining on sessionPromise ----
\* sessionPromise.then(cb): cb runs at once on a resolved promise, else it is
\* queued behind the callbacks registered before it.
\* a send that does not wait for the session promise
ThenCallsEager(i, cb) == [calls EXCEPT ![i] = Append(@, cb)]

ThenCalls(i, cb) == IF ready[i] THEN [calls EXCEPT ![i] = Append(@, cb)] ELSE calls
ThenQueue(i, cb) == IF ready[i] THEN thenQ ELSE [thenQ EXCEPT ![i] = Append(@, cb)]

CloseCall == [op |-> "close"]
AudioCall(data) == [op |-> "sendRealtimeInput", mimeType |-> "audio/pcm;rate=16000", data |-> data]
ToolCall(h, functionResponses) ==
  [op |-> "sendToolResponse", functionResponses |-> functionResponses, handler |-> h]

Init ==
  /\ connectionState = "DISCONNECTED"
  /\ logs = <<>>
  /\ volumeLevel = 0
  /\ errorMessage = NoError
  /\ audioContextRef = 0
  /\ mediaStreamRef = 0
  /\ processorRef = 0
  /\ sessionRef = 0
  /\ nextStartTimeRef = 0
  /\ audioSourcesRef = {}
  /\ stopped = {}
  /\ scheduled = <<>>
  /\ now = [i \in Sessions |-> 0]
  /\ currentInputTranscription = ""
  /\ currentOutputTranscription = ""
  /\ systemState = InitialSystemState
  /\ pc = [i \in Sessions |-> "idle"]
  /\ transport = [i \in Sessions |-> "none"]
  /\ ready = [i \in Sessions |-> FALSE]
  /\ thenQ = [i \in Sessions |-> <<>>]
  /\ calls = [i \in Sessions |-> <<>>]
  /\ capture = [i \in Sessions |-> FALSE]
  /\ micLive = [i \in Sessions |-> FALSE]
  /\ ctxCloseCalls = [i \in Sessions |-> 0]
  /\ executeToolBattery = [i \in Sessions |-> 0]
  /\ hasGetBattery \in BOOLEAN
  /\ handlers = <<>>
  /\ nconn = 0
  /\ ndisc = 0
  /\ nframes = 0
  /\ cancelled = {}

\* ---- connect(), up to its first await ----
Connect ==
  /\ nconn < MaxConnects
  /\ LET i == nconn + 1 IN
     /\ nconn' = i
     /\ errorMessage' = NoError
     /\ connectionState' = "CONNECTING"
     /\ executeToolBattery' = [executeToolBattery EXCEPT ![i] = systemState.batteryLevel]
     /\ \E suspended \in BOOLEAN :
          IF suspended
            THEN /\ pc' = [pc EXCEPT ![i] = "resume"]
                 /\ UNCHANGED audioContextRef
            ELSE /\ pc' = [pc EXCEPT ![i] = "mic"]
                 /\ audioContextRef' = i
  /\ UNCHANGED <<logs, volumeLevel, mediaStreamRef, processorRef, sessionRef, playVars,
                 textVars, transport, ready, thenQ, calls, capture, micLive, ctxCloseCalls,
                 systemState, hasGetBattery, handlers, ndisc, nframes, cancelled>>

\* outputCtx.resume() resolved
ResumeDone(i) ==
  /\ pc[i] = "resume"
  /\ pc' = [pc EXCEPT ![i] = "mic"]
  /\ audioContextRef' = i
  /\ UNCHANGED <<hookVars, mediaStreamRef, processorRef, sessionRef, playVars, textVars,
                 transport, ready, thenQ, calls, capture, micLive, ctxCloseCalls,
                 toolVars, handlers, countVars>>

\* a catch block that sets the state and the message but writes no log entry
ConnectCatchSilent(i, message) ==
  /\ pc' = [pc EXCEPT ![i] = "failed"]
  /\ errorMessage' = "Failed to initialize: " \o message
  /\ connectionState' = "ERROR"
  /\ UNCHANGED <<logs, volumeLevel, refVars, playVars, textVars, transport, ready, thenQ,
                 calls, capture, micLive, ctxCloseCalls, toolVars, handlers, countVars>>

\* the catch block of connect()
ConnectCatch(i, message) ==
  /\ pc' = [pc EXCEPT ![i] = "failed"]
  /\ errorMessage' = "Failed to initialize: " \o message
  /\ connectionState' = "ERROR"
  /\ logs' = addLog(logs, "system", "Init Error: " \o message)
  /\ UNCHANGED <<volumeLevel, refVars, playVars, textVars, transport, ready, thenQ, calls,
                 capture, micLive, ctxCloseCalls, toolVars, handlers, countVars>>

\* outputCtx.resume() rejected
ResumeFail(i) ==
  /\ pc[i] = "resume"
  /\ ConnectCatch(i, "resume")

\* navigator.mediaDevices.getUserMedia rejected
MicFail(i) ==
  /\ pc[i] = "mic"
  /\ ConnectCatch(i, "getUserMedia")

\* getUserMedia resolved: the rest of connect() runs to its end
MicGranted(i) ==
  /\ pc[i] = "mic"
  /\ pc' = [pc EXCEPT ![i] = "done"]
  /\ mediaStreamRef' = i
  /\ micLive' = [micLive EXCEPT ![i] = TRUE]
  /\ transport' = [transport EXCEPT ![i] = "opening"]
  /\ sessionRef' = i
  /\ UNCHANGED <<hookVars, audioContextRef, processorRef, playVars, textVars, ready, thenQ,
                 calls, capture, ctxCloseCalls, toolVars, handlers, countVars>>

\* an onopen that sets CONNECTED and starts the capture without a log entry
OnOpenNoLog(i) ==
  /\ transport[i] = "opening"
  /\ transport' = [transport EXCEPT ![i] = "open"]
  /\ connectionState' = "CONNECTED"
  /\ processorRef' = i
  /\ capture' = [capture EXCEPT ![i] = TRUE]
  /\ UNCHANGED <<logs, volumeLevel, errorMessage, audioContextRef, mediaStreamRef,
                 sessionRef, playVars, textVars, pc, ready, thenQ, calls, micLive,
                 ctxCloseCalls, toolVars, handlers, countVars>>

\* ---- transport callbacks of session i ----
OnOpen(i) ==
  /\ transport[i] = "opening"
  /\ transport' = [transport EXCEPT ![i] = "open"]
  /\ connectionState' = "CONNECTED"
  /\ logs' = addLog(logs, "system", "Link Established. System Online.")
  /\ processorRef' = i
  /\ capture' = [capture EXCEPT ![i] = TRUE]
  /\ UNCHANGED <<volumeLevel, errorMessage, audioContextRef, mediaStreamRef, sessionRef,
                 playVars, textVars, pc, ready, thenQ, calls, micLive, ctxCloseCalls,
                 toolVars, handlers, countVars>>

\* sessionPromise resolves: the callbacks queued on it run in registration order
SessionReady(i) ==
  /\ transport[i] = "open"
  /\ ~ready[i]
  /\ ready' = [ready EXCEPT ![i] = TRUE]
  /\ calls' = [calls EXCEPT ![i] = @ \o thenQ[i]]
  /\ thenQ' = [thenQ EXCEPT ![i] = <<>>]
  /\ UNCHANGED <<hookVars, refVars, playVars, textVars, pc, transport, capture, micLive,
                 ctxCloseCalls, toolVars, handlers, countVars>>

OnClose(i) ==
  /\ transport[i] \in {"opening", "open", "errored"}
  /\ transport' = [transport EXCEPT ![i] = "closed"]
  /\ connectionState' = "DISCONNECTED"
  /\ logs' = addLog(logs, "system", "Link Terminated.")
  /\ UNCHANGED <<volumeLevel, errorMessage, refVars, playVars, textVars, pc, ready, thenQ,
                 calls, capture, micLive, ctxCloseCalls, toolVars, handlers, countVars>>

\* an onerror that forgets the user-visible message
OnErrorNoMessage(i) ==
  /\ transport[i] \in {"opening", "open"}
  /\ transport' = [transport EXCEPT ![i] = "errored"]
  /\ connectionState' = "ERROR"
  /\ logs' = addLog(logs, "system", "Error: err")
  /\ UNCHANGED <<volumeLevel, errorMessage, refVars, playVars, textVars, pc, ready, thenQ,
                 calls, capture, micLive, ctxCloseCalls, toolVars, handlers, countVars>>

OnError(i) ==
  /\ transport[i] \in {"opening", "open"}
  /\ transport' = [transport EXCEPT ![i] = "errored"]
  /\ errorMessage' = "Network Error: err"
  /\ connectionState' = "ERROR"
  /\ logs' = addLog(logs, "system", "Error: err")
  /\ UNCHANGED <<volumeLevel, refVars, playVars, textVars, pc, ready, thenQ, calls,
                 capture, micLive, ctxCloseCalls, toolVars, handlers, countVars>>

\* ---- the capture frame callback of session i ----
Abs(x) == IF x < 0 THEN -x ELSE x
Min(a, b) == IF a < b THEN a ELSE b
Max(a, b) == IF a < b THEN b ELSE a
\* truncation toward zero of n/d (the Int16Array store drops the fraction)
Trunc(n, d) == IF n < 0 THEN -((-n) \div d) ELSE n \div d

\* a conversion that scales every sample by 32767
float32ToPcmOneScale(s) ==
  LET c == Max(-SampleDen, Min(SampleDen, s))
  IN Trunc(c * 32767, SampleDen)

\* one sample s/SampleDen converted to 16-bit PCM: clamp, then scale
float32ToPcm(s) ==
  LET c == Max(-SampleDen, Min(SampleDen, s))
  IN IF c < 0 THEN Trunc(c * 32768, SampleDen) ELSE Trunc(c * 32767, SampleDen)

\* a frame whose samples all equal s/SampleDen has rms |s|/SampleDen;
\* the volume min(rms * 5, 1) is kept in units of 1/SampleDen
frameVolume(s) == Min(Abs(s) * 5, SampleDen)

onaudioprocess(i, s) ==
  /\ capture[i]
  /\ nframes < MaxFrames
  /\ nframes' = nframes + 1
  /\ volumeLevel' = frameVolume(s)
  /\ calls' = ThenCalls(i, AudioCall(float32ToPcm(s)))
  /\ thenQ' = ThenQueue(i, AudioCall(float32ToPcm(s)))
  /\ UNCHANGED <<connectionState, logs, errorMessage, refVars, playVars, textVars, pc,
                 transport, ready, capture, micLive, ctxCloseCalls, toolVars, handlers,
                 nconn, ndisc, cancelled>>

\* ---- disconnect() ----
\* the sessions whose connect() has not completed: awaiting the output context,
\* the microphone or the transport's open acknowledgment
Connecting ==
  IF connectionState = "CONNECTING"
    THEN {i \in Sessions : pc[i] \in {"resume", "mic"} \/ transport[i] = "opening"}
    ELSE {}

\* a disconnect() that forgets setVolumeLevel(0)
DisconnectKeepsVolume ==
  /\ ndisc < MaxDisconnects
  /\ ndisc' = ndisc + 1
  /\ IF sessionRef # 0
       THEN /\ calls' = ThenCalls(sessionRef, CloseCall)
            /\ thenQ' = ThenQueue(sessionRef, CloseCall)
       ELSE UNCHANGED <<calls, thenQ>>
  /\ capture' = IF processorRef # 0 THEN [capture EXCEPT ![processorRef] = FALSE] ELSE capture
  /\ micLive' = IF mediaStreamRef # 0 THEN [micLive EXCEPT ![mediaStreamRef] = FALSE] ELSE micLive
  /\ ctxCloseCalls' = IF audioContextRef # 0
                        THEN [ctxCloseCalls EXCEPT ![audioContextRef] = @ + 1]
                        ELSE ctxCloseCalls
  /\ connectionState' = "DISCONNECTED"
  /\ cancelled' = cancelled \cup Connecting
  /\ UNCHANGED <<volumeLevel, logs, errorMessage, refVars, playVars, textVars, pc, transport,
                 ready, toolVars, handlers, nconn, nframes>>

Disconnect ==
  /\ ndisc < MaxDisconnects
  /\ ndisc' = ndisc + 1
  /\ IF sessionRef # 0
       THEN /\ calls' = ThenCalls(sessionRef, CloseCall)
            /\ thenQ' = ThenQueue(sessionRef, CloseCall)
       ELSE UNCHANGED <<calls, thenQ>>
  /\ capture' = IF processorRef # 0 THEN [capture EXCEPT ![processorRef] = FALSE] ELSE capture
  /\ micLive' = IF mediaStreamRef # 0 THEN [micLive EXCEPT ![mediaStreamRef] = FALSE] ELSE micLive
  /\ ctxCloseCalls' = IF audioContextRef # 0
                        THEN [ctxCloseCalls EXCEPT ![audioContextRef] = @ + 1]
                        ELSE ctxCloseCalls
  /\ connectionState' = "DISCONNECTED"
  /\ volumeLevel' = 0
  /\ cancelled' = cancelled \cup Connecting
  /\ UNCHANGED <<logs, errorMessage, refVars, playVars, textVars, pc, transport, ready,
                 toolVars, handlers, nconn, nframes>>

\* ---- executeTool ----
Bool2Str(b) == IF b THEN "true" ELSE "false"
OnOff(b) == IF b THEN "ON" ELSE "OFF"
Quote(s) == "\"" \o s \o "\""

\* JSON.stringify of the argument and result objects the tools see
stringify(v) ==
  IF DOMAIN v = {} THEN "{}"
  ELSE IF "level" \in DOMAIN v THEN "{" \o Quote("level") \o ":" \o ToString(v.level) \o "}"
  ELSE IF "state" \in DOMAIN v THEN "{" \o Quote("state") \o ":" \o Bool2Str(v.state) \o "}"
  ELSE IF "appName" \in DOMAIN v THEN "{" \o Quote("appName") \o ":" \o Quote(v.appName) \o "}"
  ELSE IF "status" \in DOMAIN v THEN "{" \o Quote("status") \o ":" \o Quote(v.status) \o "}"
  ELSE "{" \o Quote("success") \o ":" \o Bool2Str(v.success) \o "}"

\* Math.round(battery.level * 100), the sensor reading given in 1/1000
roundLevel(permille) == (permille + 5) \div 10

\* an executeTool whose fallback reports a failure for a name it does not know
executeToolStrict(name, args, st, level) ==
  IF name = "setBrightness"
    THEN [state |-> [st EXCEPT !.brightness = args.level],
          result |-> [status |-> "Brightness set to " \o ToString(args.level) \o "%"]]
  ELSE IF name = "toggleFlashlight"
    THEN [state |-> [st EXCEPT !.flashlight = args.state],
          result |-> [status |-> "Flashlight turned " \o OnOff(args.state)]]
  ELSE IF name = "toggleWifi"
    THEN [state |-> [st EXCEPT !.wifi = args.state],
          result |-> [status |-> "Wi-Fi turned " \o OnOff(args.state)]]
  ELSE IF name = "checkBattery"
    THEN [state |-> st, result |-> [level |-> level]]
  ELSE IF name = "openApp"
    THEN [state |-> [st EXCEPT !.activeApp = args.appName],
          result |-> [status |-> "Opened " \o args.appName]]
  ELSE IF name = "goHome"
    THEN [state |-> [st EXCEPT !.activeApp = NoApp],
          result |-> [status |-> "Navigated to Home Screen"]]
  ELSE [state |-> st, result |-> [success |-> FALSE]]

\* an executeTool that clamps the brightness to 100
executeToolClamped(name, args, st, level) ==
  IF name = "setBrightness"
    THEN [state |-> [st EXCEPT !.brightness = IF args.level > 100 THEN 100 ELSE args.level],
          result |-> [status |-> "Brightness set to " \o ToString(args.level) \o "%"]]
    ELSE executeToolStrict(name, args, st, level)

\* the branches of executeTool: the new DeviceState and the result object;
\* level is what the checkBattery branch found (the sensor or the closure's value)
executeTool(name, args, st, level) ==
  IF name = "setBrightness"
    THEN [state |-> [st EXCEPT !.brightness = args.level],
          result |-> [status |-> "Brightness set to " \o ToString(args.level) \o "%"]]
  ELSE IF name = "toggleFlashlight"
    THEN [state |-> [st EXCEPT !.flashlight = args.state],
          result |-> [status |-> "Flashlight turned " \o OnOff(args.state)]]
  ELSE IF name = "toggleWifi"
    THEN [state |-> [st EXCEPT !.wifi = args.state],
          result |-> [status |-> "Wi-Fi turned " \o OnOff(args.state)]]
  ELSE IF name = "checkBattery"
    THEN [state |-> st, result |-> [level |-> level]]
  ELSE IF name = "openApp"
    THEN [state |-> [st EXCEPT !.activeApp = args.appName],
          result |-> [status |-> "Opened " \o args.appName]]
  ELSE IF name = "goHome"
    THEN [state |-> [st EXCEPT !.activeApp = NoApp],
          result |-> [status |-> "Navigated to Home Screen"]]
  ELSE [state |-> st, result |-> [success |-> TRUE]]

ExecutingLog(fc) == "> Executing: " \o fc.name \o " (" \o stringify(fc.args) \o ")"
CompletedLog(fc, result) == "< Completed: " \o fc.name \o " | Result: " \o stringify(result)

\* an entry whose response field is the result itself
functionResponseBare(fc, result) ==
  [id |-> fc.id, name |-> fc.name, response |-> result]

\* one entry of functionResponses
functionResponse(fc, result) ==
  [id |-> fc.id, name |-> fc.name, response |-> [result |-> result]]

\* a loop that writes no entry before it executes a tool
RECURSIVE RunToolsUnannounced(_, _, _, _, _, _)
RunToolsUnannounced(i, fcs, k, st, lg, resp) ==
  IF k > Len(fcs)
    THEN [pc |-> "done", k |-> k, st |-> st, lg |-> lg, resp |-> resp]
    ELSE LET fc == fcs[k]
         IN IF fc.name = "checkBattery" /\ hasGetBattery
              THEN [pc |-> "battery", k |-> k, st |-> st,
                    lg |-> addLog(lg, "system", ExecutingLog(fc)), resp |-> resp]
              ELSE LET r == executeTool(fc.name, fc.args, st, executeToolBattery[i])
                       lg2 == addLog(lg, "system", CompletedLog(fc, r.result))
                   IN RunToolsUnannounced(i, fcs, k + 1, r.state, lg2,
                                          Append(resp, functionResponse(fc, r.result)))

\* the for loop over message.toolCall.functionCalls from request k on, run until
\* it ends or until executeTool awaits navigator.getBattery()
RECURSIVE RunTools(_, _, _, _, _, _)
RunTools(i, fcs, k, st, lg, resp) ==
  IF k > Len(fcs)
    THEN [pc |-> "done", k |-> k, st |-> st, lg |-> lg, resp |-> resp]
    ELSE LET fc == fcs[k]
             lg1 == addLog(lg, "system", ExecutingLog(fc))
         IN IF fc.name = "checkBattery" /\ hasGetBattery
              THEN [pc |-> "battery", k |-> k, st |-> st, lg |-> lg1, resp |-> resp]
              ELSE LET r == executeTool(fc.name, fc.args, st, executeToolBattery[i])
                       lg2 == addLog(lg1, "system", CompletedLog(fc, r.result))
                   IN RunTools(i, fcs, k + 1, r.state, lg2,
                               Append(resp, functionResponse(fc, r.result)))

\* ---- onmessage of session i ----
\* where handler j stands after the tool loop ran as far as it can
ToolsStep(j, hs, run) ==
  LET i == hs[j].sess
      sends == hs[j].msg.toolCall.present /\ run.pc = "done"
  IN /\ systemState' = run.st
     /\ logs' = run.lg
     /\ handlers' = [hs EXCEPT ![j].pc = run.pc, ![j].k = run.k,
                               ![j].functionResponses = run.resp]
     /\ calls' = IF sends THEN ThenCalls(i, ToolCall(j, run.resp)) ELSE calls
     /\ thenQ' = IF sends THEN ThenQueue(i, ToolCall(j, run.resp)) ELSE thenQ

\* an interruption that stops the sources and clears the set but keeps the cursor
AfterAudioKeepsCursor(j, hs, lg, nst, srcs) ==
  LET m == hs[j].msg
      lg1 == IF m.interrupted THEN addLog(lg, "system", "Output Interrupted") ELSE lg
      run == IF m.toolCall.present
               THEN RunTools(hs[j].sess, m.toolCall.functionCalls, 1, systemState, lg1, <<>>)
               ELSE [pc |-> "done", k |-> 0, st |-> systemState, lg |-> lg1, resp |-> <<>>]
  IN /\ nextStartTimeRef' = nst
     /\ audioSourcesRef' = IF m.interrupted THEN {} ELSE srcs
     /\ stopped' = IF m.interrupted THEN stopped \cup srcs ELSE stopped
     /\ ToolsStep(j, hs, run)

\* the handler from "Handle Interruptions" on
AfterAudio(j, hs, lg, nst, srcs) ==
  LET m == hs[j].msg
      lg1 == IF m.interrupted THEN addLog(lg, "system", "Output Interrupted") ELSE lg
      run == IF m.toolCall.present
               THEN RunTools(hs[j].sess, m.toolCall.functionCalls, 1, systemState, lg1, <<>>)
               ELSE [pc |-> "done", k |-> 0, st |-> systemState, lg |-> lg1, resp |-> <<>>]
  IN /\ nextStartTimeRef' = IF m.interrupted THEN 0 ELSE nst
     /\ audioSourcesRef' = IF m.interrupted THEN {} ELSE srcs
     /\ stopped' = IF m.interrupted THEN stopped \cup srcs ELSE stopped
     /\ ToolsStep(j, hs, run)

\* a flush that writes an entry for an empty buffer too
flushAlways(lg, role, buffer) == addLog(lg, role, buffer)

\* turn-complete: a buffer that holds text becomes one log entry
flush(lg, role, buffer) == IF buffer # "" THEN addLog(lg, role, buffer) ELSE lg

\* a message arrives: the handler runs to its first await or to its end;
\* the handler's record keeps the number of disconnect() calls that preceded it
onmessage(i, m) ==
  /\ transport[i] = "open"
  /\ Len(handlers) < MaxMessages
  /\ LET in1 == currentInputTranscription \o m.inputTranscription
         out1 == currentOutputTranscription \o m.outputTranscription
         lg1 == IF m.turnComplete THEN flush(logs, "user", in1) ELSE logs
         lg2 == IF m.turnComplete THEN flush(lg1, "model", out1) ELSE lg1
         j == Len(handlers) + 1
         hs == Append(handlers, [sess |-> i, msg |-> m, pc |-> "start", k |-> 0,
                                 functionResponses |-> <<>>, ndisc |-> ndisc])
     IN /\ currentInputTranscription' = IF m.turnComplete THEN "" ELSE in1
        /\ currentOutputTranscription' = IF m.turnComplete THEN "" ELSE out1
        /\ IF m.audio # 0
             THEN /\ handlers' = [hs EXCEPT ![j].pc = "decode"]
                  /\ logs' = lg2
                  /\ UNCHANGED <<nextStartTimeRef, audioSourcesRef, stopped, systemState,
                                 calls, thenQ>>
             ELSE AfterAudio(j, hs, lg2, nextStartTimeRef, audioSourcesRef)
  /\ UNCHANGED <<connectionState, volumeLevel, errorMessage, refVars, scheduled, now, pc,
                 transport, ready, capture, micLive, ctxCloseCalls, executeToolBattery,
                 hasGetBattery, countVars>>

\* a start time that is the cursor, whatever the clock
startTimeAtCursor(cursor, clock) == cursor

\* nextStartTimeRef.current = Math.max(nextStartTimeRef.current, outputCtx.currentTime)
startTime(cursor, clock) == Max(cursor, clock)

\* decodeAudioData resolved: the chunk is scheduled and the handler goes on;
\* scheduled keeps every source.start: its context, its start time, the clock
\* of the context at the call, the buffer's duration, the handler and the
\* number of connect() calls made so far
DecodeDone(j) ==
  /\ j \in DOMAIN handlers
  /\ handlers[j].pc = "decode"
  /\ LET i == handlers[j].sess
         start == startTime(nextStartTimeRef, now[i])
         id == Len(scheduled) + 1
     IN /\ scheduled' = Append(scheduled, [ctx |-> i, start |-> start, at |-> now[i],
                                           duration |-> handlers[j].msg.audio, handler |-> j,
                                           nconn |-> nconn])
        /\ AfterAudio(j, handlers, logs, start + handlers[j].msg.audio,
                      audioSourcesRef \cup {id})
  /\ UNCHANGED <<connectionState, volumeLevel, errorMessage, refVars, now, textVars, pc,
                 transport, ready, capture, micLive, ctxCloseCalls, executeToolBattery,
                 hasGetBattery, countVars>>

\* decodeAudioData rejected: the rejection ends the async handler
DecodeFail(j) ==
  /\ j \in DOMAIN handlers
  /\ handlers[j].pc = "decode"
  /\ handlers' = [handlers EXCEPT ![j].pc = "rejected"]
  /\ UNCHANGED <<hookVars, refVars, playVars, textVars, sessVars, toolVars, countVars>>

\* executeTool's checkBattery branch after its await, the level it found given
BatteryStep(j, level) ==
  /\ j \in DOMAIN handlers
  /\ handlers[j].pc = "battery"
  /\ LET h == handlers[j]
         fcs == h.msg.toolCall.functionCalls
         fc == fcs[h.k]
         r == executeTool(fc.name, fc.args, systemState, level)
         lg == addLog(logs, "system", CompletedLog(fc, r.result))
     IN ToolsStep(j, handlers,
                  RunTools(h.sess, fcs, h.k + 1, r.state, lg,
                           Append(h.functionResponses, functionResponse(fc, r.result))))
  /\ UNCHANGED <<connectionState, volumeLevel, errorMessage, refVars, playVars, textVars, pc,
                 transport, ready, capture, micLive, ctxCloseCalls, executeToolBattery,
                 hasGetBattery, countVars>>

\* navigator.getBattery() resolved with a reading
BatteryResolved(j, permille) == BatteryStep(j, roundLevel(permille))

\* navigator.getBattery() rejected: the catch branch answers the closure's value
BatteryRejected(j) ==
  /\ j \in DOMAIN handlers
  /\ BatteryStep(j, executeToolBattery[handlers[j].sess])

\* ---- the output context's clock and the sources playing on it ----
\* outputCtx.currentTime of session i advances while the context runs
Tick(i) ==
  /\ pc[i] \in {"mic", "done"}
  /\ ctxCloseCalls[i] = 0
  /\ now[i] < MaxClock
  /\ now' = [now EXCEPT ![i] = @ + 1]
  /\ UNCHANGED <<hookVars, refVars, nextStartTimeRef, audioSourcesRef, stopped, scheduled,
                 textVars, sessVars, toolVars, handlers, countVars>>

\* an onended that also moves the cursor back to the start of the source
SourceEndedRewinds(id) ==
  /\ id \in DOMAIN scheduled
  /\ id \in audioSourcesRef
  /\ ctxCloseCalls[scheduled[id].ctx] = 0
  /\ now[scheduled[id].ctx] >= scheduled[id].start + scheduled[id].duration
  /\ audioSourcesRef' = audioSourcesRef \ {id}
  /\ nextStartTimeRef' = scheduled[id].start
  /\ UNCHANGED <<hookVars, refVars, stopped, scheduled, now, textVars,
                 sessVars, toolVars, handlers, countVars>>

\* source.onended of a source that played to its end: it leaves the set
SourceEnded(id) ==
  /\ id \in DOMAIN scheduled
  /\ id \in audioSourcesRef
  /\ ctxCloseCalls[scheduled[id].ctx] = 0
  /\ now[scheduled[id].ctx] >= scheduled[id].start + scheduled[id].duration
  /\ audioSourcesRef' = audioSourcesRef \ {id}
  /\ UNCHANGED <<hookVars, refVars, nextStartTimeRef, stopped, scheduled, now, textVars,
                 sessVars, toolVars, handlers, countVars>>

\* ---- the owner of DeviceState ----
\* the component that passes systemState to the hook stores a new battery
\* reading; the hook renders again, the sessions keep the executeTool they have
RefreshBattery(level) ==
  /\ level # systemState.batteryLevel
  /\ systemState' = [systemState EXCEPT !.batteryLevel = level]
  /\ UNCHANGED <<hookVars, refVars, playVars, textVars, sessVars, executeToolBattery,
                 hasGetBattery, handlers, countVars>>

\* ---- the presentation layer's connect button ----
handleToggleConnection ==
  IF connectionState \in {"CONNECTED", "CONNECTING"} THEN Disconnect ELSE Connect

\* the button while at most n connect() calls are made
ToggleWithin(n) ==
  /\ (connectionState \in {"CONNECTED", "CONNECTING"} \/ nconn < n)
  /\ handleToggleConnection

\* a message while at most n messages are received
Receive(n, i, m) == Len(handlers) < n /\ onmessage(i, m)

\* ---- the inputs the environment draws from ----
MaxBatch == 1

FrameSamples == {1}

Message(inT, outT, turnComplete, audio, interrupted, present, fcs) ==
  [inputTranscription |-> inT, outputTranscription |-> outT, turnComplete |-> turnComplete,
   audio |-> audio, interrupted |-> interrupted,
   toolCall |-> [present |-> present, functionCalls |-> fcs]]

NoArgs == << >>

\* the requests the service may send with id x: the six tools and an unknown name
Requests(x) ==
  { [id |-> x, name |-> "setBrightness", args |-> [level |-> 150]],
    [id |-> x, name |-> "toggleFlashlight", args |-> [state |-> TRUE]],
    [id |-> x, name |-> "toggleWifi", args |-> [state |-> FALSE]],
    [id |-> x, name |-> "checkBattery", args |-> NoArgs],
    [id |-> x, name |-> "openApp", args |-> [appName |-> "Maps"]],
    [id |-> x, name |-> "goHome", args |-> NoArgs],
    [id |-> x, name |-> "reboot", args |-> NoArgs] }

RequestIds == [n \in 1..MaxBatch |-> ToString(n)]

RECURSIVE Batches(_)
Batches(n) ==
  IF n = 0 THEN { << >> }
  ELSE LET shorter == Batches(n - 1)
       IN shorter \cup { Append(b, r) : b \in {c \in shorter : Len(c) = n - 1},
                                        r \in Requests(RequestIds[n]) }

ToolBatches == Batches(MaxBatch) \ { << >> }

\* a message of only a tool-call batch, and one that carries an audio chunk too
ToolMessages ==
  { Message("", "", FALSE, a, FALSE, TRUE, b) : a \in {0, 1}, b \in ToolBatches }

LifeMessages ==
  { Message("", "", FALSE, 0, FALSE, TRUE, <<r>>) : r \in {q \in Requests("1") : q.name = "goHome"} }

SensorLevels == {125, 1000}

Lifecycle ==
  \/ ToggleWithin(OneConnect)
  \/ Disconnect
  \/ \E i \in Sessions : ResumeDone(i)
  \/ \E i \in Sessions : ResumeFail(i)
  \/ \E i \in Sessions : MicGranted(i)
  \/ \E i \in Sessions : MicFail(i)
  \/ \E i \in Sessions : OnOpen(i)
  \/ \E i \in Sessions : SessionReady(i)
  \/ \E i \in Sessions : OnClose(i)
  \/ \E i \in Sessions : OnError(i)

InitLife == Init /\ hasGetBattery = FALSE

\* the session lifecycle with its capture frames
Next ==
  \/ Lifecycle
  \/ \E i \in Sessions, s \in FrameSamples : onaudioprocess(i, s)

Spec == InitLife /\ [][Next]_vars

\* the outbound sends of capture frames and tool responses around readiness
NextSend ==
  \/ ToggleWithin(OneConnect)
  \/ \E i \in Sessions : MicGranted(i)
  \/ \E i \in Sessions : OnOpen(i)
  \/ \E i \in Sessions : SessionReady(i)
  \/ \E i \in Sessions : OnClose(i)
  \/ \E i \in Sessions, s \in FrameSamples : onaudioprocess(i, s)
  \/ \E i \in Sessions, m \in LifeMessages : Receive(OneMessage, i, m)

SpecSend == InitLife /\ [][NextSend]_vars

\* the tool dispatch of one established session
NextTools ==
  \/ (connectionState = "DISCONNECTED" /\ ToggleWithin(OneConnect))
  \/ \E i \in Sessions : ResumeDone(i)
  \/ \E i \in Sessions : MicGranted(i)
  \/ \E i \in Sessions : OnOpen(i)
  \/ \E i \in Sessions : SessionReady(i)
  \/ \E i \in Sessions, m \in ToolMessages : Receive(OneMessage, i, m)
  \/ \E j \in 1..MaxMessages : DecodeDone(j)
  \/ \E j \in 1..MaxMessages : DecodeFail(j)
  \/ \E j \in 1..MaxMessages, p \in SensorLevels : BatteryResolved(j, p)
  \/ \E j \in 1..MaxMessages : BatteryRejected(j)

SpecTools == Init /\ [][NextTools]_vars

\* a message of one request with or without transcripts, a completed turn, an
\* audio chunk and an interruption flag, one message without a tool call, and
\* one whose chunk no flag cuts short
DeviceMessages ==
  { Message(t, t, t # "", a, a # 0, TRUE, <<r>>) :
      t \in {"", "hi"}, a \in {0, 1}, r \in Requests("1") }
    \cup { Message("hi", "yo", TRUE, 1, TRUE, FALSE, << >>) }
    \cup { Message("hi", "yo", TRUE, 1, FALSE, TRUE, <<r>>) :
             r \in {q \in Requests("1") : q.name = "goHome"} }

\* one session from connect() to the disconnect() that ends it, with every
\* kind of message
NextDevice ==
  \/ (ndisc = 0 /\ ToggleWithin(OneConnect))
  \/ \E i \in Sessions : ResumeDone(i)
  \/ \E i \in Sessions : MicGranted(i)
  \/ \E i \in Sessions : OnOpen(i)
  \/ \E i \in Sessions : SessionReady(i)
  \/ \E i \in Sessions, m \in DeviceMessages : Receive(OneMessage, i, m)
  \/ \E j \in 1..MaxMessages : DecodeDone(j)
  \/ \E j \in 1..MaxMessages : DecodeFail(j)
  \/ \E j \in 1..MaxMessages, p \in SensorLevels : BatteryResolved(j, p)
  \/ \E j \in 1..MaxMessages : BatteryRejected(j)
  \/ \E i \in Sessions : Tick(i)
  \/ \E id \in 1..MaxMessages : SourceEnded(id)

SpecDevice == Init /\ [][NextDevice]_vars

\* the battery readings the owner of DeviceState may store
BatteryLevels == {20, 50, 84}

BatteryMessages ==
  { Message("", "", FALSE, 0, FALSE, TRUE, <<r>>) :
      r \in {q \in Requests("1") : q.name = "checkBattery"} }

\* checkBattery on one established session whose DeviceState is refreshed
NextBattery ==
  \/ (connectionState = "DISCONNECTED" /\ ToggleWithin(OneConnect))
  \/ \E i \in Sessions : ResumeDone(i)
  \/ \E i \in Sessions : MicGranted(i)
  \/ \E i \in Sessions : OnOpen(i)
  \/ \E i \in Sessions : SessionReady(i)
  \/ \E level \in BatteryLevels : RefreshBattery(level)
  \/ \E i \in Sessions, m \in BatteryMessages : Receive(OneMessage, i, m)
  \/ \E j \in 1..MaxMessages, p \in SensorLevels : BatteryResolved(j, p)
  \/ \E j \in 1..MaxMessages : BatteryRejected(j)

SpecBattery == Init /\ [][NextBattery]_vars

\* messages of transcript fragments, with or without turn-complete
TextMessages ==
  { Message(inT, outT, tc, 0, FALSE, FALSE, << >>) :
      inT \in {"", "a", "b"}, outT \in {"", "x", "y"}, tc \in BOOLEAN }

\* the transcript of one established session
NextText ==
  \/ (connectionState = "DISCONNECTED" /\ ToggleWithin(OneConnect))
  \/ \E i \in Sessions : ResumeDone(i)
  \/ \E i \in Sessions : MicGranted(i)
  \/ \E i \in Sessions : OnOpen(i)
  \/ \E i \in Sessions, m \in TextMessages : Receive(MaxMessages, i, m)

SpecText == InitLife /\ [][NextText]_vars

\* the durations of the audio chunks, in ticks of the clock
Durations == {1, 2}

\* messages of an audio chunk, an interruption flag, or both
AudioMessages ==
  { Message("", "", FALSE, a, x, FALSE, << >>) :
      a \in {0} \cup Durations, x \in BOOLEAN } \ { Message("", "", FALSE, 0, FALSE, FALSE, << >>) }

\* the playback of one established session
NextAudio ==
  \/ (connectionState = "DISCONNECTED" /\ ToggleWithin(OneConnect))
  \/ \E i \in Sessions : ResumeDone(i)
  \/ \E i \in Sessions : MicGranted(i)
  \/ \E i \in Sessions : OnOpen(i)
  \/ \E i \in Sessions, m \in AudioMessages : Receive(MaxMessages, i, m)
  \/ \E j \in 1..MaxMessages : DecodeDone(j)
  \/ \E j \in 1..MaxMessages : DecodeFail(j)
  \/ \E i \in Sessions : Tick(i)
  \/ \E id \in 1..MaxMessages : SourceEnded(id)

SpecAudio == InitLife /\ [][NextAudio]_vars

\* messages of one audio chunk
ChunkMessages ==
  { Message("", "", FALSE, a, FALSE, FALSE, << >>) : a \in Durations }

\* the playback across the sessions the button starts one after the other
NextReconnect ==
  \/ ToggleWithin(MaxConnects)
  \/ \E i \in Sessions : MicGranted(i)
  \/ \E i \in Sessions : OnOpen(i)
  \/ \E i \in Sessions, m \in ChunkMessages : Receive(MaxMessages, i, m)
  \/ \E j \in 1..MaxMessages : DecodeDone(j)
  \/ \E i \in Sessions : Tick(i)

SpecReconnect == InitLife /\ [][NextReconnect]_vars

\* the button pressed in every state it can be pressed in, around the
\* completion of connect(), the transport's callbacks and the capture frames
NextToggle ==
  \/ ToggleWithin(MaxConnects)
  \/ \E i \in Sessions : ResumeDone(i)
  \/ \E i \in Sessions : MicGranted(i)
  \/ \E i \in Sessions : OnOpen(i)
  \/ \E i \in Sessions : SessionReady(i)
  \/ \E i \in Sessions : OnClose(i)
  \/ \E i \in Sessions : OnError(i)
  \/ \E i \in Sessions, s \in FrameSamples : onaudioprocess(i, s)

SpecToggle == InitLife /\ [][NextToggle]_vars

\* the transcript across the sessions the button starts one after the other
NextTextReconnect ==
  \/ ToggleWithin(MaxConnects)
  \/ \E i \in Sessions : MicGranted(i)
  \/ \E i \in Sessions : OnOpen(i)
  \/ \E i \in Sessions : OnClose(i)
  \/ \E i \in Sessions, m \in TextMessages : Receive(MaxMessages, i, m)

SpecTextReconnect == InitLife /\ [][NextTextReconnect]_vars

\* messages of a batch of two requests
PairMessages ==
  { Message("", "", FALSE, 0, FALSE, TRUE, <<a, b>>) :
      a \in Requests("1"), b \in Requests("2") }

\* the tool loop of one established session on batches of two
NextBatch ==
  \/ (connectionState = "DISCONNECTED" /\ ToggleWithin(OneConnect))
  \/ \E i \in Sessions : MicGranted(i)
  \/ \E i \in Sessions : OnOpen(i)
  \/ \E i \in Sessions : SessionReady(i)
  \/ \E i \in Sessions, m \in PairMessages : Receive(OneMessage, i, m)
  \/ \E j \in 1..MaxMessages, p \in SensorLevels : BatteryResolved(j, p)
  \/ \E j \in 1..MaxMessages : BatteryRejected(j)

SpecBatch == Init /\ [][NextBatch]_vars

\* the samples of a frame, from -2 to 2 in steps of 1/SampleDen
PcmSamples == (-2 * SampleDen)..(2 * SampleDen)

\* the capture of one session
NextCapture ==
  \/ ToggleWithin(OneConnect)
  \/ \E i \in Sessions : MicGranted(i)
  \/ \E i \in Sessions : OnOpen(i)
  \/ \E i \in Sessions : SessionReady(i)
  \/ \E i \in Sessions, s \in PcmSamples : onaudioprocess(i, s)

SpecCapture == InitLife /\ [][NextCapture]_vars

\* ---- what the claims speak of ----
\* the six registered tools (controlPhoneTools)
RegisteredTools ==
  {"setBrightness", "toggleFlashlight", "toggleWifi", "checkBattery", "openApp", "goHome"}

IsAudio(c) == c.op = "sendRealtimeInput"
IsToolResponse(c) == c.op = "sendToolResponse"
\* the callbacks registered on session i's promise, run or still queued
Registered(i) == calls[i] \o thenQ[i]
\* the response batches handed to the transport for handler j, in order
SentFor(j) ==
  LET mine(c) == IsToolResponse(c) /\ c.handler = j
      sel == SelectSeq(Registered(handlers[j].sess), mine)
  IN [n \in 1..Len(sel) |-> sel[n].functionResponses]
LastLog(lg) == lg[Len(lg)]
AppendsSystemLog ==
  /\ Len(logs') = Len(logs) + 1
  /\ SubSeq(logs', 1, Len(logs)) = logs
  /\ LastLog(logs').role = "system"
DisconnectStep == ndisc' = ndisc + 1
ConnectStep == nconn' = nconn + 1
OpenStep(i) == transport[i] = "opening" /\ transport'[i] = "open"
ErrorStep(i) == transport[i] # "errored" /\ transport'[i] = "errored"
CloseStep(i) == transport[i] # "closed" /\ transport'[i] = "closed"

\* C1: right after disconnect(), called in whatever connection state, the
\* connection state is DISCONNECTED and the volume metric is 0.
C1_DisconnectEndsDisconnected ==
  [][DisconnectStep => (connectionState' = "DISCONNECTED" /\ volumeLevel' = 0)]_vars

\* a disconnect() ran after a capture frame had raised the volume
C1_Witness ==
  ndisc > 0 /\ nframes > 0 /\ volumeLevel = 0 /\ connectionState = "DISCONNECTED"

\* C2: once disconnect() ran while a connect() was in progress, the completion
\* of that connect (its open acknowledgment) leaves the connection state
\* DISCONNECTED and starts no capture pipeline.
C2_CancelledConnectStaysDown ==
  [][\A i \in cancelled :
       OpenStep(i) => (connectionState' = connectionState /\ capture'[i] = capture[i])]_vars

\* C3: disconnect() called while already DISCONNECTED (before any connect, or
\* after an earlier disconnect) changes no observable state and issues no
\* further teardown request.
C3_DisconnectIdempotent ==
  [][(DisconnectStep /\ connectionState = "DISCONNECTED" /\ (nconn = 0 \/ ndisc > 0))
       => UNCHANGED <<hookVars, calls, thenQ, ctxCloseCalls, capture, micLive>>]_vars

\* C4: when connect() fails to get the microphone, the state becomes ERROR, one
\* system log entry and one error message are produced, and the session never
\* opens a transport.
C4_MicFailure ==
  /\ [](\A i \in Sessions : pc[i] = "failed" => transport[i] = "none")
  /\ [][\A i \in Sessions :
          (pc[i] = "mic" /\ pc'[i] = "failed")
            => /\ connectionState' = "ERROR"
               /\ AppendsSystemLog
               /\ LastLog(logs').text = "Init Error: getUserMedia"
               /\ errorMessage' = "Failed to initialize: getUserMedia"
               /\ transport' = transport]_vars

C4_Witness ==
  \E i \in Sessions :
    /\ pc[i] = "failed"
    /\ connectionState = "ERROR"
    /\ errorMessage = "Failed to initialize: getUserMedia"
    /\ logs # << >>
    /\ LastLog(logs).text = "Init Error: getUserMedia"

\* C5: the open acknowledgment sets CONNECTED, a transport error sets ERROR and
\* the error message, a transport close sets DISCONNECTED, and each of the three
\* appends a system log entry.
C5_TransportEvents ==
  [][\A i \in Sessions :
       /\ OpenStep(i) => (connectionState' = "CONNECTED" /\ AppendsSystemLog)
       /\ ErrorStep(i) => /\ connectionState' = "ERROR"
                          /\ errorMessage' = "Network Error: err"
                          /\ AppendsSystemLog
       /\ CloseStep(i) => (connectionState' = "DISCONNECTED" /\ AppendsSystemLog)]_vars

\* a session that opened, failed and closed, the close event being the last
C5_Witness ==
  \E i \in Sessions :
    /\ transport[i] = "closed"
    /\ connectionState = "DISCONNECTED"
    /\ errorMessage = "Network Error: err"
    /\ \E a, b \in DOMAIN logs :
         /\ a < b /\ b < Len(logs)
         /\ logs[a].text = "Link Established. System Online."
         /\ logs[b].text = "Error: err"
    /\ LastLog(logs).text = "Link Terminated."

\* C6 as stated: every change of the connection state appends a system log
\* entry in the same step.
C6_EveryChangeLogged ==
  [][connectionState' # connectionState => AppendsSystemLog]_vars

\* C6 as amended: a change of the connection state made by a transport
\* callback or by a failed connect() appends a system log entry in the same
\* step; connect() and disconnect() write no log entry.
C6_CallbackChangesLogged ==
  [][/\ (connectionState' # connectionState /\ ~ConnectStep /\ ~DisconnectStep)
          => AppendsSystemLog
     /\ (ConnectStep \/ DisconnectStep) => logs' = logs]_vars

\* the open acknowledgment changed the state and wrote its entry, after a
\* connect() that wrote none
C6_Witness ==
  /\ connectionState = "CONNECTED"
  /\ Len(logs) = 1
  /\ logs[1] = [role |-> "system", text |-> "Link Established. System Online."]

\* the audio sends registered on the promises of sessions 1..n
RECURSIVE AudioRegistered(_)
AudioRegistered(n) ==
  IF n = 0 THEN 0 ELSE Len(SelectSeq(Registered(n), IsAudio)) + AudioRegistered(n - 1)

\* C7: no call reaches the transport before the session promise resolved; a
\* send asked for earlier waits in the queue, and every send asked for is
\* either waiting or issued, the queue being empty once the promise resolved.
C7_SendsWaitForReadiness ==
  /\ \A i \in Sessions :
       /\ ~ready[i] => calls[i] = << >>
       /\ ready[i] => thenQ[i] = << >>
  /\ AudioRegistered(MaxConnects) = nframes
  /\ \A j \in DOMAIN handlers :
       (handlers[j].msg.toolCall.present /\ handlers[j].pc = "done") => Len(SentFor(j)) = 1

\* a capture frame and a tool response both wait for the promise to resolve
C7_Witness ==
  \E i \in Sessions :
    /\ ~ready[i]
    /\ SelectSeq(thenQ[i], IsAudio) # << >>
    /\ SelectSeq(thenQ[i], IsToolResponse) # << >>

\* C8: for every message with a tool-call batch whose handling ended, one
\* response batch was sent, with one entry per request, in order, carrying the
\* request's id and name.
C8_OneResponsePerBatch ==
  \A j \in DOMAIN handlers :
    (handlers[j].msg.toolCall.present /\ handlers[j].pc \in {"done", "rejected"})
      => LET fcs == handlers[j].msg.toolCall.functionCalls
             sent == SentFor(j)
         IN /\ Len(sent) = 1
            /\ Len(sent[1]) = Len(fcs)
            /\ \A k \in 1..Len(fcs) :
                 sent[1][k].id = fcs[k].id /\ sent[1][k].name = fcs[k].name

\* the message of the flashlight scenario
FlashlightMessage ==
  Message("", "", FALSE, 0, FALSE, TRUE,
          <<[id |-> "1", name |-> "toggleFlashlight", args |-> [state |-> TRUE]]>>)

Arrives(j) == j \in DOMAIN handlers' /\ j \notin DOMAIN handlers

\* C9 as stated: the flashlight batch sets flashlight and is answered by
\* [{id "1", name toggleFlashlight, response {status "Flashlight turned ON"}}].
C9_FlashlightResponseBare ==
  [][\A j \in 1..MaxMessages :
       (Arrives(j) /\ handlers'[j].msg = FlashlightMessage)
         => /\ systemState'.flashlight = TRUE
            /\ SentFor(j)' = << <<[id |-> "1", name |-> "toggleFlashlight",
                                   response |-> [status |-> "Flashlight turned ON"]]>> >>]_vars

\* C9 as amended: the response field holds the status object under the key
\* result.
C9_FlashlightResponseWrapped ==
  [][\A j \in 1..MaxMessages :
       (Arrives(j) /\ handlers'[j].msg = FlashlightMessage)
         => /\ systemState'.flashlight = TRUE
            /\ SentFor(j)' = << <<[id |-> "1", name |-> "toggleFlashlight",
                                   response |-> [result |->
                                                   [status |-> "Flashlight turned ON"]]]>> >>]_vars

C9_Witness ==
  \E j \in DOMAIN handlers :
    /\ handlers[j].msg = FlashlightMessage
    /\ handlers[j].pc = "done"
    /\ systemState.flashlight = TRUE
    /\ Len(SentFor(j)) = 1

\* the requests of handler j all name tools that are not registered
AllUnknown(h) ==
  /\ h.msg.toolCall.present
  /\ \A k \in DOMAIN h.msg.toolCall.functionCalls :
       h.msg.toolCall.functionCalls[k].name \notin RegisteredTools
Finishes(j) ==
  /\ j \in DOMAIN handlers'
  /\ handlers'[j].pc = "done"
  /\ (j \in DOMAIN handlers => handlers[j].pc # "done")

\* C10: a request with an unregistered name gets the entry {result: {success:
\* true}} with its id and name at its place of the response batch, and a batch
\* of only such requests leaves DeviceState and the connection state unchanged.
C10_UnknownToolIsNoOp ==
  /\ [](\A j \in DOMAIN handlers :
          LET fcs == handlers[j].msg.toolCall.functionCalls
              resp == handlers[j].functionResponses
          IN \A k \in DOMAIN resp :
               fcs[k].name \notin RegisteredTools
                 => resp[k] = [id |-> fcs[k].id, name |-> fcs[k].name,
                               response |-> [result |-> [success |-> TRUE]]])
  /\ [][\A j \in 1..MaxMessages :
          (Finishes(j) /\ AllUnknown(handlers'[j]))
            => /\ systemState' = systemState
               /\ connectionState' = connectionState
               /\ Len(handlers'[j].functionResponses)
                    = Len(handlers'[j].msg.toolCall.functionCalls)
               /\ SentFor(j)' = <<handlers'[j].functionResponses>>]_vars

\* an unknown name was executed and answered
C10_Witness ==
  \E j \in DOMAIN handlers :
    /\ handlers[j].pc = "done"
    /\ handlers[j].msg.toolCall.functionCalls[1].name = "reboot"
    /\ handlers[j].functionResponses[1].response = [result |-> [success |-> TRUE]]
    /\ systemState = InitialSystemState
    /\ connectionState = "CONNECTED"
    /\ Len(SentFor(j)) = 1

\* the requests of handler j that are answered in this step
Executed(j) ==
  IF j \in DOMAIN handlers'
    THEN {k \in DOMAIN handlers'[j].functionResponses :
            j \notin DOMAIN handlers \/ k \notin DOMAIN handlers[j].functionResponses}
    ELSE {}
\* the tool table: the field a tool assigns and the value it gets
FieldOf(name) ==
  CASE name = "setBrightness" -> "brightness"
    [] name = "toggleFlashlight" -> "flashlight"
    [] name = "toggleWifi" -> "wifi"
    [] name \in {"openApp", "goHome"} -> "activeApp"
    [] OTHER -> "none"
ValueOf(fc) ==
  CASE fc.name = "setBrightness" -> fc.args.level
    [] fc.name \in {"toggleFlashlight", "toggleWifi"} -> fc.args.state
    [] fc.name = "openApp" -> fc.args.appName
    [] OTHER -> NoApp

SensorReadings == {roundLevel(p) : p \in SensorLevels}

\* C12: a checkBattery that is not answered by a sensor reading (no sensor, or
\* a failed query) answers the batteryLevel DeviceState holds when the tool
\* executes, changes neither DeviceState nor the connection state, and ends
\* with its response in the batch.
C12_BatteryFallbackIsCurrent ==
  [][\A j \in DOMAIN handlers' : \A k \in Executed(j) :
       LET fc == handlers'[j].msg.toolCall.functionCalls[k]
           level == handlers'[j].functionResponses[k].response.result.level
       IN (fc.name = "checkBattery" /\ level \notin SensorReadings)
            => /\ level = systemState.batteryLevel
               /\ systemState' = systemState
               /\ connectionState' = connectionState
               /\ handlers'[j].pc = "done"]_vars

\* the last message before message j that completed a turn (0 if none)
RECURSIVE PrevFlush(_, _)
PrevFlush(hs, j) ==
  IF j = 1 THEN 0 ELSE IF hs[j - 1].msg.turnComplete THEN j - 1 ELSE PrevFlush(hs, j - 1)
\* the fragments of messages a..b, concatenated in arrival order
RECURSIVE InputSince(_, _, _)
InputSince(hs, a, b) ==
  IF a > b THEN "" ELSE hs[a].msg.inputTranscription \o InputSince(hs, a + 1, b)
RECURSIVE OutputSince(_, _, _)
OutputSince(hs, a, b) ==
  IF a > b THEN "" ELSE hs[a].msg.outputTranscription \o OutputSince(hs, a + 1, b)
Entry(role, text) == IF text = "" THEN << >> ELSE << [role |-> role, text |-> text] >>

\* C13: a message with turn-complete appends the user entry, if the input
\* fragments received since the previous flush concatenate to a non-empty text,
\* then the model entry likewise, and nothing else, and leaves both buffers
\* empty; a message without turn-complete appends no entry.
C13_TurnCompleteFlushes ==
  [][\A j \in 1..MaxMessages :
       Arrives(j) =>
         LET hs == handlers'
             from == PrevFlush(hs, j) + 1
         IN IF hs[j].msg.turnComplete
              THEN /\ logs' = logs \o Entry("user", InputSince(hs, from, j))
                                  \o Entry("model", OutputSince(hs, from, j))
                   /\ currentInputTranscription' = ""
                   /\ currentOutputTranscription' = ""
              ELSE logs' = logs]_vars

\* two messages brought the fragments a and b, the second with turn-complete:
\* one user entry ab follows the link entry and nothing follows it
C13_Witness ==
  /\ Len(handlers) = 2
  /\ ~handlers[1].msg.turnComplete
  /\ handlers[2].msg.turnComplete
  /\ Len(logs) = 2
  /\ logs[2] = [role |-> "user", text |-> "ab"]
  /\ currentInputTranscription = ""
  /\ currentOutputTranscription = ""

\* the sources started on context i, in the order of their start calls
OnContext(i) == SelectSeq(scheduled, LAMBDA c : c.ctx = i)
RECURSIVE Played(_, _)
Played(cs, n) == IF n = 0 THEN 0 ELSE cs[n].duration + Played(cs, n - 1)
NoInterruption == \A n \in DOMAIN logs : logs[n].text # "Output Interrupted"

\* C14: while no interruption was processed, the chunks started on an output
\* context whose clock stood at t0 at every one of the starts begin at t0,
\* t0+d1, t0+d1+d2, ...: each begins where the one before it ends.
C14_GaplessFromClock ==
  \A i \in Sessions :
    LET cs == OnContext(i)
    IN (NoInterruption /\ \A n \in DOMAIN cs : cs[n].at = now[i])
         => \A n \in DOMAIN cs : cs[n].start = now[i] + Played(cs, n - 1)

\* handler j goes past its audio payload in this step
PassesAudio(j) ==
  /\ j \in DOMAIN handlers'
  /\ handlers'[j].pc \in {"battery", "done"}
  /\ IF j \in DOMAIN handlers THEN handlers[j].pc = "decode" ELSE TRUE

\* C15: the step that processes an interruption flag stops every source that
\* is in the set at that moment (the one the same message just started
\* included), leaves the set empty and sets the cursor to 0.
C15_InterruptionClearsPlayback ==
  [][\A j \in 1..MaxMessages :
       (PassesAudio(j) /\ handlers'[j].msg.interrupted)
         => /\ audioSourcesRef \subseteq stopped'
            /\ (DOMAIN scheduled' \ DOMAIN scheduled) \subseteq stopped'
            /\ audioSourcesRef' = {}
            /\ nextStartTimeRef' = 0
            /\ LastLog(logs').text = "Output Interrupted"]_vars

\* two chunks were started and the message of the second carried the flag
C15_Witness ==
  /\ Len(scheduled) = 2
  /\ stopped = {1, 2}
  /\ audioSourcesRef = {}
  /\ nextStartTimeRef = 0
  /\ handlers[scheduled[2].handler].msg.interrupted
  /\ ~handlers[scheduled[1].handler].msg.interrupted

\* handler j leaves the decode await in this step without starting a source
DropsChunk(j) ==
  /\ j \in DOMAIN handlers
  /\ handlers[j].pc = "decode"
  /\ handlers'[j].pc # "decode"
  /\ scheduled' = scheduled

\* C16: when the chunk of a message fails to decode, the connection state and
\* the transport stay as they are and the handler goes on with what the message
\* carries besides: an interruption flag is processed, a tool-call batch is
\* executed and answered.
C16_DecodeFailureIsIsolated ==
  [][\A j \in 1..MaxMessages :
       DropsChunk(j) =>
         LET m == handlers[j].msg
         IN /\ connectionState' = connectionState
            /\ transport' = transport
            /\ m.interrupted
                 => /\ audioSourcesRef' = {}
                    /\ nextStartTimeRef' = 0
                    /\ \E n \in DOMAIN logs' \ DOMAIN logs : logs'[n].text = "Output Interrupted"
            /\ m.toolCall.present
                 => \/ handlers'[j].pc = "battery"
                    \/ /\ handlers'[j].pc = "done"
                       /\ Len(handlers'[j].functionResponses) = Len(m.toolCall.functionCalls)
                       /\ Len(SentFor(j)') = 1]_vars

\* handler j, suspended at the decode await or at a tool's await when
\* disconnect() ran, resumes in this step
ResumesAfterDisconnect(j) ==
  /\ j \in DOMAIN handlers
  /\ handlers[j].pc \in {"decode", "battery"}
  /\ ndisc > handlers[j].ndisc
  /\ handlers'[j] # handlers[j]

\* C17: a handler that was in flight when disconnect() ran completes without
\* starting a source, without changing the cursor or the set of active sources
\* and without handing a send to the session.
C17_InFlightHandlerIsNoOp ==
  [][\A j \in 1..MaxMessages :
       ResumesAfterDisconnect(j)
         => UNCHANGED <<scheduled, nextStartTimeRef, audioSourcesRef, calls, thenQ>>]_vars

\* a capture frame is processed in this step
FrameStep == nframes' = nframes + 1

\* C18: a capture frame is processed (the volume set, the frame handed to the
\* session) only while the connection state is CONNECTED.
C18_FramesOnlyWhileConnected ==
  [][FrameStep => connectionState = "CONNECTED"]_vars

\* the send registered last on session i's promise
LastRegistered(i) == Registered(i)[Len(Registered(i))]

\* C19: the frame of a sample s/SampleDen is sent as a value of
\* [-32768, 32767]: -32768 for a sample of -1 or below, 32767 for a sample of 1
\* or above, 0 for 0, and between them the sample times 32768 (negative) or
\* times 32767 (non-negative) with its fraction dropped.
C19_PcmClampsAndScales ==
  [][\A i \in Sessions, s \in PcmSamples :
       onaudioprocess(i, s) =>
         LET data == LastRegistered(i)'.data
         IN /\ data \in -32768..32767
            /\ s <= -SampleDen => data = -32768
            /\ s >= SampleDen => data = 32767
            /\ s = 0 => data = 0
            /\ (-SampleDen < s /\ s < 0)
                 => (SampleDen * data >= s * 32768 /\ SampleDen * data < s * 32768 + SampleDen)
            /\ (0 <= s /\ s < SampleDen)
                 => (SampleDen * data <= s * 32767 /\ SampleDen * data > s * 32767 - SampleDen)]_vars

\* frames of the samples -2 and 2 would be sent as -32768 and 32767; here the
\* first of them was sent
C19_Witness ==
  \E i \in Sessions :
    /\ nframes > 0
    /\ volumeLevel = SampleDen
    /\ Registered(i) # << >>
    /\ LastRegistered(i).op = "sendRealtimeInput"
    /\ LastRegistered(i).data = -32768

\* handler j is done with the audio payload of its message in this step: the
\* message has none, or its decode await is over
LeavesAudio(j) ==
  /\ j \in DOMAIN handlers'
  /\ handlers'[j].pc # "decode"
  /\ IF j \in DOMAIN handlers THEN handlers[j].pc = "decode" ELSE TRUE
\* the log entries written in this step
NewLogs == SubSeq(logs', Len(logs) + 1, Len(logs'))

\* C20: the handler of a message processes every component the message
\* carries, in the order fragments, turn-complete, audio, interruption, tool
\* calls: the fragments of a message with turn-complete are flushed when it
\* arrives; once the audio payload is dealt with, a flag of the message is
\* processed (the set empty, the cursor 0, the source the message started
\* stopped), its log entry coming after the flushed transcript and before the
\* entries of the tools, and a tool-call batch of the message is executed.
C20_EveryComponentInOrder ==
  [][\A j \in 1..MaxMessages :
       /\ Arrives(j) =>
            LET m == handlers'[j].msg
            IN IF m.turnComplete
                 THEN /\ currentInputTranscription' = ""
                      /\ currentOutputTranscription' = ""
                      /\ (currentInputTranscription = "" /\ m.inputTranscription # "")
                           => /\ NewLogs # << >>
                              /\ NewLogs[1] = [role |-> "user", text |-> m.inputTranscription]
                 ELSE /\ currentInputTranscription'
                           = currentInputTranscription \o m.inputTranscription
                      /\ currentOutputTranscription'
                           = currentOutputTranscription \o m.outputTranscription
       /\ LeavesAudio(j) =>
            LET m == handlers'[j].msg
            IN /\ m.interrupted
                    => /\ audioSourcesRef' = {}
                       /\ nextStartTimeRef' = 0
                       /\ (DOMAIN scheduled' \ DOMAIN scheduled) \subseteq stopped'
                       /\ \E n \in DOMAIN NewLogs :
                            /\ NewLogs[n].text = "Output Interrupted"
                            /\ \A k \in 1..(n - 1) : NewLogs[k].role \in {"user", "model"}
               /\ m.toolCall.present
                    => \/ handlers'[j].pc = "battery"
                       \/ /\ handlers'[j].pc = "done"
                          /\ Len(SentFor(j)') = 1]_vars

\* a source is started in this step
Schedules == Len(scheduled') = Len(scheduled) + 1
Started == scheduled'[Len(scheduled')]

\* C21: every source is started at the larger of the cursor and the clock of
\* its context, both as they are at the start call, so that no source starts
\* before the clock of that moment, the first one after an interruption
\* included.
C21_StartsAtMaxOfCursorAndClock ==
  /\ [](\A n \in DOMAIN scheduled : scheduled[n].start >= scheduled[n].at)
  /\ [][Schedules
          => /\ Started.at = now[Started.ctx]
             /\ Started.start = IF nextStartTimeRef > now[Started.ctx]
                                   THEN nextStartTimeRef ELSE now[Started.ctx]]_vars

\* an interruption set the cursor to 0, the clock went on, and the next chunk
\* was started at the clock
C21_Witness ==
  /\ Len(scheduled) = 2
  /\ handlers[scheduled[1].handler].msg.interrupted
  /\ scheduled[2].at > 0
  /\ scheduled[2].start = scheduled[2].at

\* a handler processes the interruption flag of its message in this step
Interrupts == \E j \in DOMAIN handlers' : PassesAudio(j) /\ handlers'[j].msg.interrupted

\* C22: the cursor goes down only in a step that processes an interruption
\* flag, and then to 0; a step that starts a source without such a flag raises
\* it to the start time plus the duration; every other step (a source that
\* ends, connect(), disconnect(), transcripts, tools, the clock) keeps it.
C22_CursorMonotonic ==
  [][/\ nextStartTimeRef' < nextStartTimeRef => (Interrupts /\ nextStartTimeRef' = 0)
     /\ (Schedules /\ ~Interrupts)
          => /\ nextStartTimeRef' = Started.start + Started.duration
             /\ nextStartTimeRef' > nextStartTimeRef
     /\ (~Schedules /\ ~Interrupts) => nextStartTimeRef' = nextStartTimeRef]_vars

\* a source played to its end and left the set, a tool ran and disconnect()
\* was called, and the cursor stands where the start of the source put it
C22_Witness ==
  /\ Len(scheduled) = 1
  /\ audioSourcesRef = {}
  /\ stopped = {}
  /\ ndisc > 0
  /\ nextStartTimeRef = scheduled[1].start + scheduled[1].duration
  /\ nextStartTimeRef > 0
  /\ handlers[1].pc = "done"
  /\ handlers[1].msg.turnComplete
  /\ Len(handlers[1].functionResponses) = 1

\* the entries the tool loop of handler j has written once it stands at h:
\* two for every answered request, one more while a request awaits the sensor
RECURSIVE ToolEntries(_, _)
ToolEntries(h, n) ==
  IF n = 0 THEN << >>
  ELSE LET fc == h.msg.toolCall.functionCalls[n]
           before == [role |-> "system", text |-> ExecutingLog(fc)]
       IN IF n <= Len(h.functionResponses)
            THEN ToolEntries(h, n - 1)
                   \o << before, [role |-> "system",
                                  text |-> CompletedLog(fc, h.functionResponses[n].response.result)] >>
            ELSE ToolEntries(h, n - 1) \o << before >>
Written(h) ==
  ToolEntries(h, IF h.pc = "battery" THEN Len(h.functionResponses) + 1
                                     ELSE Len(h.functionResponses))
AfterPrefix(whole, n) == SubSeq(whole, n + 1, Len(whole))

\* C23: the tool loop of a batch writes, request after request in the order of
\* the batch, the entry of the request and then the entry of its result; while
\* a checkBattery awaits the sensor nothing of a later request is written or
\* applied; the response batch is handed to the session in the step that
\* completes the last request and not before.
C23_BatchRunsInOrder ==
  /\ [](\A j \in DOMAIN handlers :
          /\ handlers[j].pc = "battery"
               => /\ handlers[j].k = Len(handlers[j].functionResponses) + 1
                  /\ handlers[j].msg.toolCall.functionCalls[handlers[j].k].name = "checkBattery"
          /\ SentFor(j) # << >>
               => /\ handlers[j].pc = "done"
                  /\ Len(handlers[j].functionResponses)
                       = Len(handlers[j].msg.toolCall.functionCalls)
                  /\ SentFor(j) = <<handlers[j].functionResponses>>)
  /\ [][\A j \in 1..MaxMessages :
          (j \in DOMAIN handlers' /\ (j \notin DOMAIN handlers \/ handlers'[j] # handlers[j]))
            => LET was == IF j \in DOMAIN handlers THEN Len(Written(handlers[j])) ELSE 0
               IN /\ NewLogs = AfterPrefix(Written(handlers'[j]), was)
                  /\ \A k \in DOMAIN handlers'[j].msg.toolCall.functionCalls :
                       k > Len(handlers'[j].functionResponses)
                         => LET f == FieldOf(handlers'[j].msg.toolCall.functionCalls[k].name)
                            IN f # "none" => systemState'[f] = systemState[f]]_vars

\* checkBattery awaited the sensor before an openApp: the four entries stand
\* in the order of the batch and one response batch of two entries was sent
C23_Witness ==
  \E j \in DOMAIN handlers :
    /\ hasGetBattery
    /\ handlers[j].pc = "done"
    /\ handlers[j].msg.toolCall.functionCalls[1].name = "checkBattery"
    /\ handlers[j].msg.toolCall.functionCalls[2].name = "openApp"
    /\ Len(logs) = 5
    /\ logs[2].text = "> Executing: checkBattery ({})"
    /\ logs[3].text = "< Completed: checkBattery | Result: {\"level\":100}"
    /\ logs[4].text = "> Executing: openApp ({\"appName\":\"Maps\"})"
    /\ logs[5].text = "< Completed: openApp | Result: {\"status\":\"Opened Maps\"}"
    /\ systemState.activeApp = "Maps"
    /\ Len(SentFor(j)) = 1
    /\ Len(SentFor(j)[1]) = 2

\* handler b has processed an interruption flag
Interrupted(b) ==
  /\ b \in DOMAIN handlers
  /\ handlers[b].msg.interrupted
  /\ handlers[b].pc \in {"battery", "done"}

\* C24: a step that starts a source plays a chunk of a message that arrived
\* after every interruption processed so far: no chunk of an earlier message
\* is started once the interruption of a later message has been handled, its
\* decode pending at that moment or not.
C24_NoChunkOfBeforeInterruption ==
  [][\A n \in DOMAIN scheduled' \ DOMAIN scheduled :
       \A b \in DOMAIN handlers : Interrupted(b) => scheduled'[n].handler > b]_vars

\* C25: while no interruption was processed, of two chunks started the one of
\* the message that arrived first has the earlier start time.
C25_ChunksStartInArrivalOrder ==
  NoInterruption =>
    \A m, n \in DOMAIN scheduled :
      scheduled[m].handler < scheduled[n].handler => scheduled[m].start < scheduled[n].start

\* C26: the first source started on the output context of a session that
\* follows a disconnect() starts at the clock of that context as read at the
\* start: the cursor the session before it left behind has no part in it.
C26_NewSessionStartsAtItsClock ==
  [][(/\ Schedules
      /\ Started.ctx > 1
      /\ \A n \in DOMAIN scheduled : scheduled[n].ctx # Started.ctx)
       => Started.start = Started.at]_vars

\* session.close() was asked of session i, at once or on its promise
CloseAsked(i) == \E n \in DOMAIN Registered(i) : Registered(i)[n] = CloseCall
\* the sessions whose transport is open and was never asked to close
OpenSessions == {i \in Sessions : transport[i] = "open" /\ ~CloseAsked(i)}
\* the sessions whose processor delivers frames
Capturing == {i \in Sessions : capture[i]}

\* C27: whatever the button does, at most one session has an open transport
\* that was not asked to close, and at most one capture pipeline delivers
\* frames.
C27_OneSessionOneCapture ==
  /\ Cardinality(OpenSessions) <= 1
  /\ Cardinality(Capturing) <= 1

\* the fragments that session i received in messages a..b, in arrival order
RECURSIVE InputOf(_, _, _, _)
InputOf(hs, i, a, b) ==
  IF a > b THEN ""
  ELSE (IF hs[a].sess = i THEN hs[a].msg.inputTranscription ELSE "")
         \o InputOf(hs, i, a + 1, b)
RECURSIVE OutputOf(_, _, _, _)
OutputOf(hs, i, a, b) ==
  IF a > b THEN ""
  ELSE (IF hs[a].sess = i THEN hs[a].msg.outputTranscription ELSE "")
         \o OutputOf(hs, i, a + 1, b)

\* C28: connect() starts its session with both transcript buffers empty, and
\* the entries a turn-complete appends hold the fragments its own session
\* received since the flush before it and none of another session.
C28_BuffersStartEmpty ==
  [][/\ ConnectStep => (currentInputTranscription' = "" /\ currentOutputTranscription' = "")
     /\ \A j \in 1..MaxMessages :
          (Arrives(j) /\ handlers'[j].msg.turnComplete)
            => LET hs == handlers'
                   from == PrevFlush(hs, j) + 1
               IN logs' = logs \o Entry("user", InputOf(hs, hs[j].sess, from, j))
                               \o Entry("model", OutputOf(hs, hs[j].sess, from, j))]_vars

====
